---- MODULE Spec2Model ----
(***************************************************************************)
(* A model of org.lflang.lds/uberjar.py: the script that merges the plugin *)
(* archives of an update site into one uber jar and wraps it in launcher   *)
(* scripts.  The file system is the state: the input directory, the        *)
(* scratch directories <build>/extracted and <build>/merged, the target    *)
(* directory; the script's position is pc, its locals are variables.       *)
(* Strings are TLA+ strings; the string functions of Python the script     *)
(* uses (startswith, endswith, in, split, strip, basename, fnmatch,        *)
(* sorted) are operators computed character by character.                  *)
(***************************************************************************)
EXTENDS Integers, Sequences, FiniteSets, TLC

(***************************************************************************)
(* Python string functions                                                 *)
(***************************************************************************)
startswith(s, p) == Len(p) <= Len(s) /\ SubSeq(s, 1, Len(p)) = p

endswith(s, p) == Len(p) <= Len(s) /\ SubSeq(s, Len(s) - Len(p) + 1, Len(s)) = p

\* Python's  p in s  on strings
contains(p, s) == \E i \in 1..(Len(s) - Len(p) + 1) : SubSeq(s, i, i + Len(p) - 1) = p

\* the index of the first occurrence of the character c in s at or after i; 0 if none
RECURSIVE find(_, _, _)
find(s, c, i) ==
    IF i > Len(s) THEN 0
    ELSE IF SubSeq(s, i, i) = c THEN i
    ELSE find(s, c, i + 1)

\* s.split(c): the pieces of s between the occurrences of the character c
RECURSIVE split(_, _)
split(s, c) ==
    LET k == find(s, c, 1)
    IN  IF k = 0 THEN <<s>>
        ELSE <<SubSeq(s, 1, k - 1)>> \o split(SubSeq(s, k + 1, Len(s)), c)

Whitespace == {" ", "\t", "\n", "\r", "\f"}

RECURSIVE lstrip(_)
lstrip(s) ==
    IF Len(s) > 0 /\ SubSeq(s, 1, 1) \in Whitespace
    THEN lstrip(SubSeq(s, 2, Len(s)))
    ELSE s

RECURSIVE rstrip(_)
rstrip(s) ==
    IF Len(s) > 0 /\ SubSeq(s, Len(s), Len(s)) \in Whitespace
    THEN rstrip(SubSeq(s, 1, Len(s) - 1))
    ELSE s

strip(s) == rstrip(lstrip(s))

\* os.path.basename: what follows the last "/"
RECURSIVE basename(_)
basename(p) ==
    LET k == find(p, "/", 1)
    IN  IF k = 0 THEN p ELSE basename(SubSeq(p, k + 1, Len(p)))

\* file.readlines(): the lines of a text, each with its line break
RECURSIVE readlines(_)
readlines(s) ==
    LET k == find(s, "\n", 1)
    IN  IF Len(s) = 0 THEN <<>>
        ELSE IF k = 0 THEN <<s>>
        ELSE <<SubSeq(s, 1, k)>> \o readlines(SubSeq(s, k + 1, Len(s)))

(***************************************************************************)
(* fnmatch.fnmatch(name, pat) on a POSIX platform (normcase is the         *)
(* identity): "*" matches any run of characters, "/" included; "?" any one *)
(* character; "[seq]" one character of seq and "[!seq]" one character not  *)
(* in seq; a "[" without a closing "]" is a literal.  Character ranges     *)
(* (a-z) are not modelled: no pattern of the script uses one.              *)
(***************************************************************************)
RECURSIVE fnmatchFrom(_, _, _, _)
fnmatchFrom(name, i, pat, j) ==
    IF j > Len(pat) THEN i > Len(name)
    ELSE LET c == SubSeq(pat, j, j)
             \* the closing bracket of a class opened at j: a "]" right after the
             \* "[" or the "[!" is a member, not the end
             first == IF SubSeq(pat, j + 1, j + 1) = "!" THEN j + 2 ELSE j + 1
             close == find(pat, "]", first + 1)
         IN  IF c = "*"
             THEN fnmatchFrom(name, i, pat, j + 1)
                  \/ (i <= Len(name) /\ fnmatchFrom(name, i + 1, pat, j))
             ELSE IF c = "?"
             THEN i <= Len(name) /\ fnmatchFrom(name, i + 1, pat, j + 1)
             ELSE IF c = "[" /\ close # 0
             THEN /\ i <= Len(name)
                  /\ LET members == {SubSeq(pat, k, k) : k \in first..(close - 1)}
                         ch == SubSeq(name, i, i)
                     IN  IF first = j + 2 THEN ch \notin members ELSE ch \in members
                  /\ fnmatchFrom(name, i + 1, pat, close + 1)
             ELSE /\ i <= Len(name)
                  /\ SubSeq(name, i, i) = c
                  /\ fnmatchFrom(name, i + 1, pat, j + 1)

fnmatch(name, pat) == fnmatchFrom(name, 1, pat, 1)

\* any(fnmatch(name, pattern) for pattern in patterns)
matchesAny(name, patterns) == \E k \in 1..Len(patterns) : fnmatch(name, patterns[k])

(***************************************************************************)
(* sorted() on strings: by code point, a proper prefix first.  CodeOrder   *)
(* lists the characters the archive names use in code point order.         *)
(***************************************************************************)
CodeOrder == "-.0123456789_abcdefghijklmnopqrstuvwxyz"

ord(c) == find(CodeOrder, c, 1)

\* s < t, given that they agree before position i
RECURSIVE strLessFrom(_, _, _)
strLessFrom(s, t, i) ==
    IF i > Len(t) THEN FALSE
    ELSE IF i > Len(s) THEN TRUE
    ELSE IF SubSeq(s, i, i) = SubSeq(t, i, i)
    THEN strLessFrom(s, t, i + 1)
    ELSE ord(SubSeq(s, i, i)) < ord(SubSeq(t, i, i))

strLess(s, t) == strLessFrom(s, t, 1)

RECURSIVE sorted(_)
sorted(S) ==
    IF S = {} THEN <<>>
    ELSE LET least == CHOOSE m \in S : \A o \in S \ {m} : strLess(m, o)
         IN  <<least>> \o sorted(S \ {least})

(***************************************************************************)
(* The classification lists of the script                                  *)
(***************************************************************************)
IGNORE_NESTED_JARS == <<>>

IGNORED_FILES == <<
    "org/*/*.java", "com/*/*.java", "de/*/*.java", "module-info.class",
    "*._trace", "*.g", "*.mwe2", "*.xtext", "*.genmodel", "*.ecore",
    "*.ecorediag", "*.html", "*.profile", ".api_description", ".options",
    "log4j.properties", "about.*", "about_*", "about_files/*", "cheatsheets/*",
    "META-INF/*.DSA", "META-INF/*.RSA", "META-INF/*.SF",
    "META-INF/changelog.txt", "META-INF/DEPENDENCIES", "META-INF/eclipse.inf",
    "META-INF/INDEX.LIST", "META-INF/MANIFEST.MF", "META-INF/maven/*",
    "META-INF/NOTICE.txt", "META-INF/NOTICE", "META-INF/p2.inf",
    "OSGI-INF/l10n/bundle.properties", "docs/*", "*readme.txt", "plugin.xml",
    "schema/*", "profile.list", "systembundle.properties", "version.txt",
    "xtend-gen/*" >>

APPEND_MERGE == <<
    "plugin.properties", "META-INF/services/*", "META-INF/LICENSE.txt",
    "META-INF/LICENSE" >>

IGNORE_MERGE == <<
    "eclipse32.png", "modeling32.png", "icons/*.png", "icons/*.gif",
    "epl-v10.html", "org/osgi/service/log/*", "META-INF/AL*", "META-INF/LGPL*",
    "META-INF/GPL*" >>

KLIGHD_JARS_BLACKLIST == << "org.eclipse.ui*", "org.eclipse.e4*", "org.eclipse.*.ui*" >>

KLIGHD_JARS_WHITELIST == << "org.eclipse.ui.workbench_*", "org.eclipse.ui.ide_*" >>

KLIGHD_IGNORED_FILES == <<
    "org/eclipse/ui/[!I]*", "org/eclipse/ui/*/*", "org.eclipse.ui.ide*/icons/*",
    "fragment.properties" >>

(***************************************************************************)
(* The inputs: the archives an update site may hold, each with its files.  *)
(* A nested archive is a file of its parent, named on the parent's         *)
(* Bundle-ClassPath; once moved into the input directory it is the archive *)
(* of that name.                                                           *)
(***************************************************************************)
Archive ==
    "a.plugin_1.0.0.jar" :>
        ( "x/y.txt" :> "hello" @@ "plugin.properties" :> "a=1" @@ "icons/a.png" :> "png-a" )
 @@ "a.plugin_2.0.0.jar" :>
        ( "x/y.txt" :> "world" @@ "plugin.properties" :> "a=2" )
 @@ "b.lib_1.jar" :>
        ( "META-INF/MANIFEST.MF" :>
              "Manifest-Version: 1.0\nBundle-ClassPath: .,\n lib/inner.jar\nBundle-Name: b\n"
          @@ "lib/inner.jar" :> "<inner.jar>"
          @@ "conf/app.ini" :> "ini-b"
          @@ "plugin.properties" :> "b=1" )
 @@ "c.lib_1.jar" :>
        ( "conf/app.ini" :> "ini-c" @@ "plugin.properties" :> "c=1"
          @@ "icons/a.png" :> "png-c" @@ "plugin.xml" :> "<plugin/>" )
 @@ "de.cau.cs.kieler.klighd_1.jar" :>
        ( "fragment.properties" :> "k-frag" @@ "org/eclipse/ui/IEditor.class" :> "IEditor" )
 @@ "deep.jar" :>
        ( "x/deep.txt" :> "deep" @@ "epl-v10.html" :> "<html/>" )
 @@ "inner.jar" :>
        ( "META-INF/MANIFEST.MF" :> "Bundle-ClassPath: deep.jar, gone.jar\n"
          @@ "deep.jar" :> "<deep.jar>"
          @@ "META-INF/services/readme.txt" :> "svc-readme"
          @@ "plugin.properties" :> "i=1" )
 @@ "org.eclipse.swt.cocoa.macosx.x86_64_3.jar" :>
        ( "libswt.jnilib" :> "osx-3" )
 @@ "org.eclipse.swt.gtk.linux.x86_64_3.jar" :>
        ( "libswt.so" :> "linux-3" @@ "fragment.properties" :> "swt-frag" )
 @@ "org.eclipse.swt.gtk.linux.x86_64_4.jar" :>
        ( "libswt.so" :> "linux-4" )
 @@ "org.eclipse.swt.motif.aix_3.jar" :>
        ( "libswt.a" :> "aix-3" )
 @@ "org.eclipse.swt.win32.win32.x86_64_3.jar" :>
        ( "swt.dll" :> "win-3" @@ "about.html" :> "<about/>" )
 @@ "org.eclipse.ui.ide_1.jar" :>
        ( "org/eclipse/ui/IStorageEditorInput.class" :> "IStorageEditorInput"
          @@ "org/eclipse/ui/ide/IDE.class" :> "IDE" )
 @@ "org.eclipse.ui.views_1.jar" :>
        ( "org/eclipse/ui/Editor.class" :> "Editor" )

\* the paths of all the archives' files
Paths == UNION {DOMAIN Archive[a] : a \in DOMAIN Archive}

\* the lists' verdicts on those paths, computed once
IgnoredPaths == {f \in Paths : matchesAny(f, IGNORED_FILES)}
KlighdIgnoredPaths == {f \in Paths : matchesAny(f, KLIGHD_IGNORED_FILES)}
AppendMergePaths == {f \in Paths : matchesAny(f, APPEND_MERGE)}
IgnoreMergePaths == {f \in Paths : matchesAny(f, IGNORE_MERGE)}

\* what os.listdir(args.source) may hold when the run starts: the archives
\* above that are not only nested, and a file that is no archive
TopLevel == (DOMAIN Archive \ {"deep.jar"}) \cup {"artifacts.xml"}

\* the most entries of the input directory of a run
MaxJars == 3

\* a file a previous run left in a scratch directory
Stale == "stale.txt" :> "old"

EmptyDir == <<>>

\* a directory's files without those of the set gone
without(files, gone) == [f \in DOMAIN files \ gone |-> files[f]]

\* the positional arguments name and main
ArgName == "app"
ArgMain == "Main"

(***************************************************************************)
(* State                                                                   *)
(***************************************************************************)
VARIABLES
    args,            \* the parsed command line
    source,          \* the names in the input directory args.source
    extracted_isdir, \* isdir(<build>/extracted)
    extracted,       \* <build>/extracted: scratch directory name -> (path -> content)
    merged_isdir,    \* isdir(<build>/merged)
    merged,          \* <build>/merged: path -> content
    target_dir,      \* the target directory: file name -> content
    klighd,          \* main's and extract's klighd
    jars,            \* extract's work list
    idx,             \* the position of  for jar in jars
    processed_jars,  \* extract's processed_jars: <<plugin name, jar>> tuples
    conflicts,       \* extract's conflicts
    todo,            \* the files os.walk(target) has yet to yield
    klighd_swt,      \* the module's klighd_swt: platform -> scratch directory name
    pending,         \* bundle's  for platform in klighd_swt.keys(): those left
    jar,             \* what bundle returned: a path, or a dict platform -> path
    pc,              \* the statement the script is at
    status,          \* the exit status, once pc = "exited"
    error,           \* how the run ended: "" (main returned), "stop", or the exception raised
    listing0         \* history: what sorted(os.listdir(args.source)) returned to extract

vars == << args, source, extracted_isdir, extracted, merged_isdir, merged,
           target_dir, klighd, jars, idx, processed_jars, conflicts, todo, klighd_swt,
           pending, jar, pc, status, error, listing0 >>

Platforms == {"linux", "win", "osx"}

Init ==
    /\ args \in [ source_isdir : BOOLEAN, ignore_conflicts : BOOLEAN, scripts : BOOLEAN,
                  java8 : BOOLEAN, noswt : BOOLEAN ]
    /\ source \in {S \in SUBSET TopLevel : Cardinality(S) <= MaxJars}
    /\ (~args.source_isdir => source = {})
    /\ extracted_isdir \in BOOLEAN
    /\ merged_isdir \in BOOLEAN
    /\ extracted = IF extracted_isdir THEN ("old" :> Stale) ELSE EmptyDir
    /\ merged = IF merged_isdir THEN Stale ELSE EmptyDir
    /\ target_dir = EmptyDir
    /\ klighd = FALSE
    /\ jars = <<>>
    /\ idx = 1
    /\ processed_jars = <<>>
    /\ conflicts = FALSE
    /\ todo = {}
    /\ klighd_swt = EmptyDir
    /\ pending = {}
    /\ jar = [ isdict |-> FALSE, path |-> "", dict |-> EmptyDir ]
    /\ pc = "check_input"
    /\ status = 0
    /\ error = ""
    /\ listing0 = <<>>

\* sys.exit(code), or an exception no handler catches (status 1)
exit(code, how) ==
    /\ pc' = "exited"
    /\ status' = code
    /\ error' = how

\* def stop(msg): errPrint, then sys.exit(2)
stop == exit(2, "stop")

(***************************************************************************)
(* main, up to the call of extract                                         *)
(***************************************************************************)
\* assert_is_dir(args.source)
CheckInput ==
    /\ pc = "check_input"
    /\ IF ~args.source_isdir
       THEN stop
       ELSE pc' = "create_build_folders" /\ UNCHANGED << status, error >>
    /\ UNCHANGED << args, source, extracted_isdir, extracted, merged_isdir,
                    merged, target_dir, klighd, jars, idx, processed_jars, conflicts,
                    todo, klighd_swt, pending, jar, listing0 >>

\* if isdir(d): shutil.rmtree(d)  else: os.mkdir(d)
\* the directory afterwards: <<isdir, content>>
rmtree_or_mkdir(isdir, content) == IF isdir THEN <<FALSE, EmptyDir>> ELSE <<TRUE, EmptyDir>>

\* "Create build folders"
CreateBuildFolders ==
    /\ pc = "create_build_folders"
    /\ extracted_isdir' = rmtree_or_mkdir(extracted_isdir, extracted)[1]
    /\ extracted' = rmtree_or_mkdir(extracted_isdir, extracted)[2]
    /\ merged_isdir' = rmtree_or_mkdir(merged_isdir, merged)[1]
    /\ merged' = rmtree_or_mkdir(merged_isdir, merged)[2]
    /\ pc' = "check_klighd"
    /\ UNCHANGED << args, source, target_dir, klighd, jars, idx, processed_jars,
                    conflicts, todo, klighd_swt, pending, jar, status, error, listing0 >>

\* klighd = any(jar.startswith('de.cau.cs.kieler.klighd') for jar in os.listdir(args.source))
CheckKlighd ==
    /\ pc = "check_klighd"
    /\ klighd' = \E j \in source : startswith(j, "de.cau.cs.kieler.klighd")
    /\ pc' = "extract"
    /\ UNCHANGED << args, source, extracted_isdir, extracted, merged_isdir,
                    merged, target_dir, jars, idx, processed_jars, conflicts, todo,
                    klighd_swt, pending, jar, status, error, listing0 >>

(***************************************************************************)
(* handleNestedJarsOnClasspath                                             *)
(***************************************************************************)
\* the loop over the manifest's lines: the collected classpath, "" for None
RECURSIVE scanClasspath(_, _, _)
scanClasspath(lines, k, classpath) ==
    IF k > Len(lines) THEN classpath
    ELSE LET line == lines[k]
             startCP == strip(SubSeq(line, 18, Len(line)))
         IN  IF contains("Bundle-ClassPath:", line)
             THEN scanClasspath(lines, k + 1, IF startCP # "" THEN startCP ELSE " ")
             ELSE IF classpath # "" /\ contains(":", line)
             THEN classpath
             ELSE IF classpath # ""
             THEN scanClasspath(lines, k + 1, classpath \o strip(line))
             ELSE scanClasspath(lines, k + 1, classpath)

\* the loop over classpath.split(','): st is [dir, jars_dir, jars], the files of
\* the extracted archive, the names in the input directory, the names found
RECURSIVE moveNested(_, _, _)
moveNested(cps, k, st) ==
    IF k > Len(cps) THEN st
    ELSE LET cpFile == strip(cps[k])
             dest == basename(cpFile)
         IN  IF cpFile # "" /\ cpFile # "." /\ contains(".jar", cpFile)
                /\ cpFile \in DOMAIN st.dir /\ dest \notin st.jars_dir
             THEN moveNested(cps, k + 1,
                      [ dir |-> without(st.dir, {cpFile}),
                        jars_dir |-> st.jars_dir \cup {dest},
                        jars |-> Append(st.jars, dest) ])
             ELSE moveNested(cps, k + 1, st)

handleNestedJarsOnClasspath(dir, jars_dir) ==
    LET manifest == "META-INF/MANIFEST.MF"
        st0 == [ dir |-> dir, jars_dir |-> jars_dir, jars |-> <<>> ]
        classpath == scanClasspath(readlines(dir[manifest]), 1, "")
    IN  IF manifest \in DOMAIN dir /\ classpath # ""
        THEN moveNested(split(classpath, ","), 1, st0)
        ELSE st0

\* extendNew with the discovered names dropped
extendNewDropped(list, found, k) == list

\* jars.extend(j for j in found if j not in jars)
RECURSIVE extendNew(_, _, _)
extendNew(list, found, k) ==
    IF k > Len(found) THEN list
    ELSE extendNew(IF \E n \in 1..Len(list) : list[n] = found[k]
                   THEN list ELSE Append(list, found[k]),
                   found, k + 1)

(***************************************************************************)
(* extract                                                                 *)
(***************************************************************************)
\* jar.split("_")[0]
pluginName(j) == split(j, "_")[1]

\* jar[:-4], the name of the archive's scratch directory under extracted
targetOf(j) == SubSeq(j, 1, Len(j) - 4)

skipNoJar(j) == ~endswith(j, ".jar")

skipKlighd(j) ==
    klighd /\ matchesAny(j, KLIGHD_JARS_BLACKLIST) /\ ~matchesAny(j, KLIGHD_JARS_WHITELIST)

\* skipMultiple without the look-up in processed_jars
skipMultipleNever(j) == FALSE

skipMultiple(j) == \E n \in 1..Len(processed_jars) : processed_jars[n][1] = pluginName(j)

\* if klighd and jar.startswith('org.eclipse.swt.')
isSwtFragment(j) == klighd /\ startswith(j, "org.eclipse.swt.")

\* the platform an SWT fragment's name gives, "" for none
swtPlatform(j) ==
    IF contains("gtk.linux.x86_64", j) THEN "linux"
    ELSE IF contains("win32.win32.x86_64", j) THEN "win"
    ELSE IF contains("cocoa.macosx.x86_64", j) THEN "osx"
    ELSE ""

\* ignoredFile without the Klighd list
ignoredFileKlighdForgotten(file, kl) == file \in IgnoredPaths

\* the must-exclude test of the merge walk
ignoredFile(file, kl) ==
    \/ file \in IgnoredPaths
    \/ (kl /\ file \in KlighdIgnoredPaths)

\* "Remove unwanted files from fragment directory"
removeUnwanted(files) ==
    without(files, {f \in DOMAIN files : f \in IgnoredPaths \/ f \in KlighdIgnoredPaths})

\* potentialConflict appending without the line break
potentialConflictNoNewline(file, dest, src) ==
    IF file \in AppendMergePaths
    THEN [ content |-> dest \o src, conflict |-> FALSE ]
    ELSE IF file \in IgnoreMergePaths
    THEN [ content |-> dest, conflict |-> FALSE ]
    ELSE [ content |-> dest, conflict |-> TRUE ]

\* potentialConflict letting the later writer of an ignore-merge path win
potentialConflictOverwrite(file, dest, src) ==
    IF file \in AppendMergePaths
    THEN [ content |-> dest \o "\n" \o src, conflict |-> FALSE ]
    ELSE IF file \in IgnoreMergePaths
    THEN [ content |-> src, conflict |-> FALSE ]
    ELSE [ content |-> dest, conflict |-> TRUE ]

\* isfile(dest): what the merged file becomes and whether this is a conflict
potentialConflict(file, dest, src) ==
    IF file \in AppendMergePaths
    THEN [ content |-> dest \o "\n" \o src, conflict |-> FALSE ]
    ELSE IF file \in IgnoreMergePaths
    THEN [ content |-> dest, conflict |-> FALSE ]
    ELSE [ content |-> dest, conflict |-> TRUE ]

\* renames copying: the source stays in the scratch directory
renamesCopy(scratch, tree, file) ==
    [ scratch |-> scratch, tree |-> (file :> scratch[file]) @@ tree ]

\* os.renames(src, dest): the scratch directory and the merged tree afterwards
renames(scratch, tree, file) ==
    [ scratch |-> without(scratch, {file}), tree |-> (file :> scratch[file]) @@ tree ]

\* conflicts = False; jars = sorted(os.listdir(args.source)); processed_jars = []
Extract ==
    /\ pc = "extract"
    /\ conflicts' = FALSE
    /\ jars' = sorted(source)
    /\ listing0' = jars' 
    /\ processed_jars' = <<>>
    /\ idx' = 1
    /\ pc' = "for_jar"
    /\ UNCHANGED << args, source, extracted_isdir, extracted, merged_isdir,
                    merged, target_dir, klighd, todo, klighd_swt, pending, jar, status,
                    error >>

nextJar ==
    /\ idx' = idx + 1
    /\ pc' = "for_jar"

\* the three  continue  branches of the loop
SkipFile ==
    /\ pc = "for_jar" /\ idx <= Len(jars)
    /\ skipNoJar(jars[idx])
    /\ nextJar
    /\ UNCHANGED << args, source, extracted_isdir, extracted, merged_isdir,
                    merged, target_dir, klighd, jars, processed_jars, conflicts, todo,
                    klighd_swt, pending, jar, status, error, listing0 >>

SkipKlighdHandling ==
    /\ pc = "for_jar" /\ idx <= Len(jars)
    /\ ~skipNoJar(jars[idx]) /\ skipKlighd(jars[idx])
    /\ nextJar
    /\ UNCHANGED << args, source, extracted_isdir, extracted, merged_isdir,
                    merged, target_dir, klighd, jars, processed_jars, conflicts, todo,
                    klighd_swt, pending, jar, status, error, listing0 >>

SkipMultipleVersions ==
    /\ pc = "for_jar" /\ idx <= Len(jars)
    /\ ~skipNoJar(jars[idx]) /\ ~skipKlighd(jars[idx]) /\ skipMultiple(jars[idx])
    /\ nextJar
    /\ UNCHANGED << args, source, extracted_isdir, extracted, merged_isdir,
                    merged, target_dir, klighd, jars, processed_jars, conflicts, todo,
                    klighd_swt, pending, jar, status, error, listing0 >>

extracting ==
    /\ pc = "for_jar" /\ idx <= Len(jars)
    /\ ~skipNoJar(jars[idx]) /\ ~skipKlighd(jars[idx]) /\ ~skipMultiple(jars[idx])

\* os.makedirs(target); check_call([args.jar, 'xf', ...], cwd=target) succeeds
UnpackJar ==
    /\ extracting
    /\ extracted_isdir' = TRUE
    /\ extracted' = (targetOf(jars[idx]) :> Archive[jars[idx]]) @@ extracted
    /\ pc' = "unpacked"
    /\ UNCHANGED << args, source, merged_isdir, merged, target_dir, klighd,
                    jars, idx, processed_jars, conflicts, todo, klighd_swt, pending, jar,
                    status, error, listing0 >>

\* ... or the archiving tool fails: check_call raises CalledProcessError
UnpackJarFails ==
    /\ extracting
    /\ extracted_isdir' = TRUE
    /\ extracted' = (targetOf(jars[idx]) :> EmptyDir) @@ extracted
    /\ exit(1, "CalledProcessError")
    /\ UNCHANGED << args, source, merged_isdir, merged, target_dir, klighd,
                    jars, idx, processed_jars, conflicts, todo, klighd_swt, pending, jar,
                    listing0 >>

\* "Do not merge swt fragments".  stop('Unknown ...', jar) passes two arguments
\* to the one-parameter stop: a TypeError, which nothing catches
SwtFragment ==
    /\ pc = "unpacked" /\ isSwtFragment(jars[idx])
    /\ IF swtPlatform(jars[idx]) = ""
       THEN /\ exit(1, "TypeError: stop() takes 1 positional argument but 2 were given")
            /\ UNCHANGED << klighd_swt, extracted, idx >>
       ELSE /\ klighd_swt' = (swtPlatform(jars[idx]) :> targetOf(jars[idx])) @@ klighd_swt
            /\ extracted' = [extracted EXCEPT ![targetOf(jars[idx])] = removeUnwanted(@)]
            /\ nextJar
            /\ UNCHANGED << status, error >>
    /\ UNCHANGED << args, source, extracted_isdir, merged_isdir, merged,
                    target_dir, klighd, jars, processed_jars, conflicts, todo, pending,
                    jar, listing0 >>

\* "Append nested jars for later unpacking", then the merge walk starts
NestedJars ==
    /\ pc = "unpacked" /\ ~isSwtFragment(jars[idx])
    /\ LET t == targetOf(jars[idx])
           found == IF ~matchesAny(jars[idx], IGNORE_NESTED_JARS)
                    THEN handleNestedJarsOnClasspath(extracted[t], source)
                    ELSE [ dir |-> extracted[t], jars_dir |-> source, jars |-> <<>> ]
       IN  /\ extracted' = [extracted EXCEPT ![t] = found.dir]
           /\ source' = found.jars_dir
           /\ jars' = extendNew(jars, found.jars, 1)
           /\ todo' = DOMAIN found.dir
    /\ pc' = "merge"
    /\ UNCHANGED << args, extracted_isdir, merged_isdir, merged, target_dir,
                    klighd, idx, processed_jars, conflicts, klighd_swt, pending, jar,
                    status, error, listing0 >>

\* one file of the walk, in whatever order os.walk yields them
MergeFile ==
    /\ pc = "merge"
    /\ \E file \in todo :
        LET t == targetOf(jars[idx])
            src == extracted[t][file]
        IN  /\ todo' = todo \ {file}
            /\ IF ignoredFile(file, klighd)
               THEN UNCHANGED << extracted, merged, merged_isdir, conflicts >>
               ELSE IF file \in DOMAIN merged
               THEN /\ merged' = [merged EXCEPT
                                     ![file] = potentialConflict(file, @, src).content]
                    /\ conflicts' = (conflicts \/ potentialConflict(file, merged[file], src).conflict)
                    /\ UNCHANGED << extracted, merged_isdir >>
               ELSE /\ extracted' = [extracted EXCEPT ![t] = renames(@, merged, file).scratch]
                    /\ merged' = renames(extracted[t], merged, file).tree
                    /\ merged_isdir' = TRUE
                    /\ UNCHANGED conflicts
    /\ UNCHANGED << args, source, extracted_isdir, target_dir, klighd, jars,
                    idx, processed_jars, klighd_swt, pending, jar, pc, status, error,
                    listing0 >>

\* the walk is over: processed_jars.append((jar.split("_")[0], jar))
Processed ==
    /\ pc = "merge" /\ todo = {}
    /\ processed_jars' = Append(processed_jars, << pluginName(jars[idx]), jars[idx] >>)
    /\ nextJar
    /\ UNCHANGED << args, source, extracted_isdir, extracted, merged_isdir,
                    merged, target_dir, klighd, jars, conflicts, todo, klighd_swt, pending,
                    jar, status, error, listing0 >>

\* the work list is exhausted: return conflicts
ExtractReturns ==
    /\ pc = "for_jar" /\ idx > Len(jars)
    /\ pc' = "check_conflicts"
    /\ UNCHANGED << args, source, extracted_isdir, extracted, merged_isdir,
                    merged, target_dir, klighd, jars, idx, processed_jars, conflicts, todo,
                    klighd_swt, pending, jar, status, error, listing0 >>

(***************************************************************************)
(* main after extract; bundle                                              *)
(***************************************************************************)
\* if conflicts and not args.ignore_conflicts: stop(...)
CheckConflicts ==
    /\ pc = "check_conflicts"
    /\ IF conflicts /\ ~args.ignore_conflicts
       THEN stop
       ELSE pc' = "bundle" /\ UNCHANGED << status, error >>
    /\ UNCHANGED << args, source, extracted_isdir, extracted, merged_isdir,
                    merged, target_dir, klighd, jars, idx, processed_jars, conflicts,
                    todo, klighd_swt, pending, jar, listing0 >>

\* A file of the target directory: an archive the tool wrote (its entry point
\* and its files), behind the text a launcher puts in front of it
jarFile(main, files) ==
    [ header |-> "", main |-> main, files |-> files, executable |-> FALSE ]

\* jar uf pjar .  run in a bucket's directory: its files go on top
jarUpdate(archive, files) == [archive EXCEPT !.files = files @@ @]

baseJar == ArgName \o ".jar"

\* jar[:-4] + '.' + platform + '.jar'
platformJar(platform) ==
    SubSeq(baseJar, 1, Len(baseJar) - 4) \o "." \o platform \o ".jar"

\* check_call([args.jar, 'cfe', jar, args.main, '.'], cwd=merged) succeeds; then
\* either the platform loop starts or bundle returns the path.  A cwd that does
\* not exist makes check_call raise FileNotFoundError
Bundle ==
    /\ pc = "bundle"
    /\ IF ~merged_isdir
       THEN /\ exit(1, "FileNotFoundError")
            /\ UNCHANGED << target_dir, pending, jar >>
       ELSE /\ target_dir' = (baseJar :> jarFile(ArgMain, merged)) @@ target_dir
            /\ UNCHANGED << status, error >>
            /\ IF klighd /\ ~args.noswt
               THEN /\ pending' = DOMAIN klighd_swt
                    /\ jar' = [ isdict |-> TRUE, path |-> "", dict |-> EmptyDir ]
                    /\ pc' = "for_platform"
               ELSE /\ jar' = [ isdict |-> FALSE, path |-> baseJar, dict |-> EmptyDir ]
                    /\ pc' = "wrapper_scripts"
                    /\ UNCHANGED pending
    /\ UNCHANGED << args, source, extracted_isdir, extracted, merged_isdir,
                    merged, klighd, jars, idx, processed_jars, conflicts, todo,
                    klighd_swt, listing0 >>

BundleFails ==
    /\ pc = "bundle" /\ merged_isdir
    /\ exit(1, "CalledProcessError")
    /\ UNCHANGED << args, source, extracted_isdir, extracted, merged_isdir,
                    merged, target_dir, klighd, jars, idx, processed_jars, conflicts,
                    todo, klighd_swt, pending, jar, listing0 >>

\* shutil.copy(jar, pjar); check_call([args.jar, 'uf', pjar, '.'], cwd=klighd_swt[platform])
BundlePlatform ==
    /\ pc = "for_platform"
    /\ \E platform \in pending :
        /\ target_dir' = (platformJar(platform) :>
                             jarUpdate(target_dir[baseJar], extracted[klighd_swt[platform]]))
                         @@ target_dir
        /\ jar' = [jar EXCEPT !.dict = (platform :> platformJar(platform)) @@ @]
        /\ pending' = pending \ {platform}
    /\ UNCHANGED << args, source, extracted_isdir, extracted, merged_isdir,
                    merged, klighd, jars, idx, processed_jars, conflicts, todo,
                    klighd_swt, pc, status, error, listing0 >>

BundlePlatformFails ==
    /\ pc = "for_platform"
    /\ \E platform \in pending :
        target_dir' = (platformJar(platform) :> target_dir[baseJar]) @@ target_dir
    /\ exit(1, "CalledProcessError")
    /\ UNCHANGED << args, source, extracted_isdir, extracted, merged_isdir,
                    merged, klighd, jars, idx, processed_jars, conflicts, todo,
                    klighd_swt, pending, jar, listing0 >>

\* os.remove(jar) "remove SWT-less base jar"; return jars
RemoveBaseJar ==
    /\ pc = "for_platform" /\ pending = {}
    /\ target_dir' = without(target_dir, {baseJar})
    /\ pc' = "wrapper_scripts"
    /\ UNCHANGED << args, source, extracted_isdir, extracted, merged_isdir,
                    merged, klighd, jars, idx, processed_jars, conflicts, todo,
                    klighd_swt, pending, jar, status, error, listing0 >>

(***************************************************************************)
(* create_standalone_scripts                                               *)
(***************************************************************************)
java9_options ==
    " --add-opens java.base/java.lang=ALL-UNNAMED --add-opens java.base/jdk.internal.loader=ALL-UNNAMED"

linux_cmd(options) ==
    "#!/usr/bin/env bash\nexec java -Djava.system.class.loader=de.cau.cs.kieler.kicool.cli.CLILoader -Xmx512m "
    \o options \o " -jar $0 \"$@\"\n"

win_cmd(options) ==
    "java -Djava.system.class.loader=de.cau.cs.kieler.kicool.cli.CLILoader -Xmx512m "
    \o options \o " -jar %0 %* \r\n exit /b %errorlevel%\r\n"

osx_cmd(options) ==
    "#!/usr/bin/env bash\nexec java -Djava.system.class.loader=de.cau.cs.kieler.kicool.cli.CLILoader -XstartOnFirstThread -Xmx512m "
    \o options \o " -jar $0 \"$@\" \n"

\* write_script: the command, then the code, and the executable bits
write_script(command, code) == [code EXCEPT !.header = command, !.executable = TRUE]

\* the files one platform's block writes into the target directory
scripts(dir, file, suffix, suffix8, command8, command9) ==
    (IF args.java8
     THEN (ArgName \o suffix8) :> write_script(command8, dir[file])
     ELSE EmptyDir)
    @@ (ArgName \o suffix) :> write_script(command9, dir[file])
    @@ dir

\* the three look-ups jar['linux'], jar['win'], jar['osx'] succeed
hasPlatformJars == \A platform \in Platforms : platform \in DOMAIN jar.dict

\* jar_linux, jar_win, jar_osx
jarOf(platform) == IF jar.isdict THEN jar.dict[platform] ELSE jar.path

\* if args.scripts: create_standalone_scripts(...), up to the platform blocks.
\* A platform that bundle made no archive for is a KeyError
WrapperScripts ==
    /\ pc = "wrapper_scripts"
    /\ IF ~args.scripts
       THEN exit(0, "")
       ELSE IF jar.isdict /\ ~hasPlatformJars
       THEN exit(1, "KeyError")
       ELSE pc' = "script_linux" /\ UNCHANGED << status, error >>
    /\ UNCHANGED << args, source, extracted_isdir, extracted, merged_isdir,
                    merged, target_dir, klighd, jars, idx, processed_jars, conflicts,
                    todo, klighd_swt, pending, jar, listing0 >>

ScriptLinux ==
    /\ pc = "script_linux"
    /\ target_dir' = scripts(target_dir, jarOf("linux"), "-linux", "-linuxJava8",
                             linux_cmd(""), linux_cmd(java9_options))
    /\ pc' = "script_win"
    /\ UNCHANGED << args, source, extracted_isdir, extracted, merged_isdir,
                    merged, klighd, jars, idx, processed_jars, conflicts, todo,
                    klighd_swt, pending, jar, status, error, listing0 >>

\* On an interpreter whose str is not bytes (Python 3) the first
\* file.write(command) to the file opened 'wb' raises TypeError: the launcher
\* is left empty
ScriptLinuxTypeError ==
    /\ pc = "script_linux"
    /\ target_dir' = ((ArgName \o "-linux") :> jarFile("", EmptyDir)) @@ target_dir
    /\ exit(1, "TypeError: a bytes-like object is required, not 'str'")
    /\ UNCHANGED << args, source, extracted_isdir, extracted, merged_isdir,
                    merged, klighd, jars, idx, processed_jars, conflicts, todo,
                    klighd_swt, pending, jar, listing0 >>

ScriptWin ==
    /\ pc = "script_win"
    /\ target_dir' = scripts(target_dir, jarOf("win"), "-win.bat", "-winJava8.bat",
                             win_cmd(""), win_cmd(java9_options))
    /\ pc' = "script_osx"
    /\ UNCHANGED << args, source, extracted_isdir, extracted, merged_isdir,
                    merged, klighd, jars, idx, processed_jars, conflicts, todo,
                    klighd_swt, pending, jar, status, error, listing0 >>

\* the last block; main returns
ScriptOsx ==
    /\ pc = "script_osx"
    /\ target_dir' = scripts(target_dir, jarOf("osx"), "-osx", "-osxJava8",
                             osx_cmd(""), osx_cmd(java9_options))
    /\ exit(0, "")
    /\ UNCHANGED << args, source, extracted_isdir, extracted, merged_isdir,
                    merged, klighd, jars, idx, processed_jars, conflicts, todo,
                    klighd_swt, pending, jar, listing0 >>

(***************************************************************************)
(* The script                                                              *)
(***************************************************************************)
Next ==
    \/ CheckInput
    \/ CreateBuildFolders
    \/ CheckKlighd
    \/ Extract
    \/ SkipFile
    \/ SkipKlighdHandling
    \/ SkipMultipleVersions
    \/ UnpackJar
    \/ UnpackJarFails
    \/ SwtFragment
    \/ NestedJars
    \/ MergeFile
    \/ Processed
    \/ ExtractReturns
    \/ CheckConflicts
    \/ Bundle
    \/ BundleFails
    \/ BundlePlatform
    \/ BundlePlatformFails
    \/ RemoveBaseJar
    \/ WrapperScripts
    \/ ScriptLinux
    \/ ScriptLinuxTypeError
    \/ ScriptWin
    \/ ScriptOsx

Spec == Init /\ [][Next]_vars

\* extract reads args.source and args.jar only: the runs that differ in the
\* four flags alone extract and merge alike.  The runs with every flag but
\* --noswt set:
InitExtract ==
    /\ Init
    /\ args.ignore_conflicts /\ args.scripts /\ args.java8 /\ ~args.noswt

SpecExtract == InitExtract /\ [][Next]_vars

TypeOK ==
    /\ pc \in { "check_input", "create_build_folders", "check_klighd", "extract",
                "for_jar", "unpacked", "merge", "check_conflicts", "bundle",
                "for_platform", "wrapper_scripts", "script_linux", "script_win",
                "script_osx", "exited" }
    /\ status \in {0, 1, 2}
    /\ idx \in 1..(Len(jars) + 1)

(***************************************************************************)
(* Properties                                                              *)
(***************************************************************************)
\* the build folders are set up: merged is this run's tree
running == pc \notin {"check_input", "create_build_folders"}

\* extract has returned to main
extractReturned ==
    /\ args.source_isdir
    /\ pc \notin {"check_input", "create_build_folders", "check_klighd", "extract",
                  "for_jar", "unpacked", "merge"}
    /\ idx > Len(jars)

\* the must-exclude set of the run
mustExclude(p) == p \in IgnoredPaths \/ (klighd /\ p \in KlighdIgnoredPaths)

\* the archives whose merge walk has started, in processing order
mergedArchives ==
    [n \in 1..Len(processed_jars) |-> processed_jars[n][2]]
    \o (IF pc = "merge" THEN << jars[idx] >> ELSE <<>>)

\* the contents the archives a[1..n] hold at path p, for those whose walk has yielded p
RECURSIVE contributions(_, _, _)
contributions(a, n, p) ==
    IF n = 0 THEN <<>>
    ELSE contributions(a, n - 1, p)
         \o (IF p \in DOMAIN Archive[a[n]]
                /\ ~(pc = "merge" /\ a[n] = jars[idx] /\ p \in todo)
             THEN << Archive[a[n]][p] >> ELSE <<>>)

contributionsAt(p) == contributions(mergedArchives, Len(mergedArchives), p)

\* the contents joined by line breaks
RECURSIVE joinLines(_)
joinLines(c) ==
    IF Len(c) = 1 THEN c[1]
    ELSE joinLines(SubSeq(c, 1, Len(c) - 1)) \o "\n" \o c[Len(c)]

\* the file the walk yields in this step
walked(file) == pc = "merge" /\ file \in todo /\ file \notin todo'

\* C1: a path of an append-merge pattern that is not excluded holds, in the
\* merged tree, the contents of all the merged archives that have a file
\* there, in processing order, joined by line breaks: contentA + "\n" +
\* contentB after the second contributor, whatever else was merged
C1_AppendMergeConcatenates ==
    running =>
        \A p \in AppendMergePaths :
            ~mustExclude(p) =>
                IF contributionsAt(p) = <<>>
                THEN p \notin DOMAIN merged
                ELSE p \in DOMAIN merged /\ merged[p] = joinLines(contributionsAt(p))

\* a run that ended well after three archives (the last one nested) wrote
\* plugin.properties, with x/y.txt, icons/a.png, conf/app.ini merged beside it
C1_ThreeContributors ==
    /\ pc = "exited" /\ status = 0
    /\ "plugin.properties" \in DOMAIN merged
    /\ merged["plugin.properties"] = "a=1\nb=1\ni=1"
    /\ {"x/y.txt", "conf/app.ini", "x/deep.txt"} \subseteq DOMAIN merged

\* the first content a merged archive brought to path p
firstWriter(p) == contributionsAt(p)[1]

\* C2: an unresolved conflict keeps the first writer's content; once the work
\* list is processed the run ends with status 2 and no final archive, or,
\* with --ignore-conflicts, goes on to assembly and ends with status 0.
\* (Stated for runs in which the archiving tool itself does not fail, on an
\* interpreter that writes str to a binary file.)
C2_ConflictAbortsOrIsTolerated ==
    (pc = "exited" /\ extractReturned /\ conflicts /\ error # "CalledProcessError"
     /\ error # "TypeError: a bytes-like object is required, not 'str'") =>
        /\ \A p \in DOMAIN merged :
              (p \notin AppendMergePaths /\ ~endswith(p, ".jar")) => merged[p] = firstWriter(p)
        /\ IF args.ignore_conflicts
           THEN status = 0
           ELSE status = 2 /\ DOMAIN target_dir = {}

\* the archives unpacked into a scratch directory of this run
unpacked == {t \o ".jar" : t \in DOMAIN extracted}

\* C3 as stated: of the archives of one plugin family, in every mode, only the
\* first is extracted and contributes
C3_OneArchivePerFamilyInEveryMode ==
    running =>
        \A a \in unpacked, b \in unpacked : pluginName(a) = pluginName(b) => a = b

\* C3, amended: of the archives of one plugin family that are merged into the
\* common tree (all but the org.eclipse.swt.* fragments of Klighd mode), only
\* the first is extracted: every later one is skipped, unpacks nothing and
\* contributes nothing; and no two processed-archive records share a family
C3_OneMergedArchivePerFamily ==
    running =>
        /\ \A a \in unpacked, b \in unpacked :
              (pluginName(a) = pluginName(b) /\ a # b)
                  => (isSwtFragment(a) /\ isSwtFragment(b))
        /\ \A m \in 1..Len(processed_jars), n \in 1..Len(processed_jars) :
              processed_jars[m][1] = processed_jars[n][1] => m = n
        /\ \A n \in 1..Len(processed_jars) :
              \A i \in 1..Len(jars) :
                  (pluginName(jars[i]) = processed_jars[n][1] /\ ~isSwtFragment(jars[i])
                   /\ jars[i] \in unpacked) => jars[i] = processed_jars[n][2]

\* a.plugin_1.0.0.jar was merged, a.plugin_2.0.0.jar skipped: x/y.txt is "hello"
C3_SecondVersionSkipped ==
    /\ pc = "exited" /\ status = 0
    /\ "a.plugin_2.0.0.jar" \in source
    /\ "a.plugin_1.0.0" \in DOMAIN extracted
    /\ "a.plugin_2.0.0" \notin DOMAIN extracted
    /\ merged["x/y.txt"] = "hello"
    /\ merged["plugin.properties"] = "a=1"

\* C4: a file at a path of an ignore-merge pattern, once in the merged tree,
\* keeps its bytes through every later step, and a collision at such a path
\* leaves the conflict flag as it is
C4_IgnoreMergeKeepsFirst ==
    [][ running =>
          \A p \in IgnoreMergePaths :
              p \in DOMAIN merged =>
                  /\ p \in DOMAIN merged'
                  /\ merged'[p] = merged[p]
                  /\ (walked(p) => conflicts' = conflicts) ]_vars

\* c.lib_1.jar, whose icons/a.png differs, was merged after a.plugin_1.0.0.jar
C4_LaterIconIgnored ==
    /\ \E n \in 1..Len(processed_jars) : processed_jars[n][2] = "c.lib_1.jar"
    /\ "icons/a.png" \in DOMAIN merged
    /\ merged["icons/a.png"] = "png-a"
    /\ "icons/a.png" \in DOMAIN extracted["c.lib_1"]
    /\ ~conflicts

\* C5: the merged tree never holds a file whose path matches IGNORED_FILES or,
\* in Klighd mode, KLIGHD_IGNORED_FILES; walking such a file changes neither
\* the tree nor the conflict flag, whatever merge list its path also matches
C5_MustExcludeNeverMerged ==
    /\ [](running => \A p \in DOMAIN merged : ~mustExclude(p))
    /\ [][ \A p \in Paths :
              (walked(p) /\ mustExclude(p)) => (merged' = merged /\ conflicts' = conflicts) ]_vars

\* Klighd mode; the walks of the Klighd archive (fragment.properties) and of
\* inner.jar (META-INF/services/readme.txt, on an append-merge pattern) are over
C5_ExcludedFilesWalked ==
    /\ klighd
    /\ \E n \in 1..Len(processed_jars) : processed_jars[n][2] = "inner.jar"
    /\ \E n \in 1..Len(processed_jars) : processed_jars[n][2] = "de.cau.cs.kieler.klighd_1.jar"
    /\ "META-INF/services/readme.txt" \in AppendMergePaths
    /\ "META-INF/services/readme.txt" \in DOMAIN extracted["inner"]
    /\ "fragment.properties" \in DOMAIN extracted["de.cau.cs.kieler.klighd_1"]
    /\ "plugin.properties" \in DOMAIN merged

unknownFragment ==
    /\ idx <= Len(jars)
    /\ isSwtFragment(jars[idx]) /\ swtPlatform(jars[idx]) = ""
    /\ targetOf(jars[idx]) \in DOMAIN extracted
    /\ DOMAIN extracted[targetOf(jars[idx])] # {}

fatalCondition ==
    \/ ~args.source_isdir
    \/ (extractReturned /\ conflicts /\ ~args.ignore_conflicts)
    \/ error = "CalledProcessError"
    \/ unknownFragment

\* C7: a run that met a fatal condition ends with status 2, any other with 0
C7_ExitStatus ==
    pc = "exited" => status = (IF fatalCondition THEN 2 ELSE 0)

\* bundle has returned
assembled ==
    /\ extractReturned
    /\ IF jar.isdict THEN pending = {} /\ baseJar \notin DOMAIN target_dir
       ELSE jar.path # ""

\* the file a launcher of platform wraps
finalJar(platform) == IF jar.isdict THEN platformJar(platform) ELSE baseJar

launcherOk(name, platform, header) ==
    /\ name \in DOMAIN target_dir
    /\ finalJar(platform) \in DOMAIN target_dir
    /\ target_dir[name].header = header
    /\ target_dir[name].main = target_dir[finalJar(platform)].main
    /\ target_dir[name].files = target_dir[finalJar(platform)].files

\* C8: with -s, once extraction and assembly are through, the run ends with
\* status 0 and each platform's launcher is its header followed by the final
\* archive of that platform, whatever buckets extraction filled.  (Stated for
\* an interpreter that writes str to a binary file.)
C8_LaunchersWritten ==
    (pc = "exited" /\ args.scripts /\ assembled
     /\ error # "TypeError: a bytes-like object is required, not 'str'") =>
        /\ status = 0
        /\ launcherOk(ArgName \o "-linux", "linux", linux_cmd(java9_options))
        /\ launcherOk(ArgName \o "-win.bat", "win", win_cmd(java9_options))
        /\ launcherOk(ArgName \o "-osx", "osx", osx_cmd(java9_options))

\* C9: when the build folders are set up, extracted and merged exist and are empty
C9_ScratchRecreated ==
    pc = "check_klighd" =>
        /\ extracted_isdir /\ DOMAIN extracted = {}
        /\ merged_isdir /\ DOMAIN merged = {}

\* the loop  for jar in jars  is running
inLoop == pc \in {"for_jar", "unpacked", "merge"}

\* the most files an archive holds
MaxFiles ==
    CHOOSE n \in 0..Cardinality(Paths) :
        /\ \A a \in DOMAIN Archive : Cardinality(DOMAIN Archive[a]) <= n
        /\ \E a \in DOMAIN Archive : Cardinality(DOMAIN Archive[a]) = n

\* what is left of the loop: the entries not yet done and the archives not yet
\* in the input directory, then the steps left for the entry at hand
loopMeasure ==
    (Len(jars) + 1 - idx + Cardinality(DOMAIN Archive \ source)) * (MaxFiles + 3)
    + (IF pc = "for_jar" THEN MaxFiles + 2
       ELSE IF pc = "unpacked" THEN MaxFiles + 1
       ELSE Cardinality(todo))

\* C10: the work list starts as the sorted listing and only grows at its end,
\* by the names the resolver moved into the input directory; it never holds a
\* name twice; the loop takes its entries one by one, each once, and returns
\* only past the last; and it terminates: every step of the loop lowers a
\* measure that is never negative
C10_WorkListExhausted ==
    /\ [](running /\ pc # "check_klighd" /\ pc # "extract" =>
            /\ \A m \in 1..Len(jars), n \in 1..Len(jars) : jars[m] = jars[n] => m = n
            /\ Len(listing0) <= Len(jars) /\ SubSeq(jars, 1, Len(listing0)) = listing0
            /\ {jars[n] : n \in 1..Len(jars)} = source
            /\ (extractReturned => idx = Len(jars) + 1)
            /\ (inLoop => loopMeasure >= 0))
    /\ [][ running /\ pc # "check_klighd" /\ pc # "extract" =>
            /\ SubSeq(jars', 1, Len(jars)) = jars
            /\ jars' # jars =>
                  (idx' = idx /\ Len(jars') = Len(jars) + Cardinality(source' \ source))
            /\ (idx' = idx \/ (idx' = idx + 1 /\ idx <= Len(jars)))
            /\ (inLoop /\ inLoop' => loopMeasure' < loopMeasure) ]_vars

\* deep.jar, nested in inner.jar, nested in b.lib_1.jar, was taken after the
\* archives of the listing, and the loop is over
C10_NestedOfNestedProcessed ==
    /\ extractReturned /\ pc = "check_conflicts"
    /\ Len(listing0) >= 2
    /\ Len(jars) = Len(listing0) + 2
    /\ jars[Len(jars) - 1] = "inner.jar" /\ jars[Len(jars)] = "deep.jar"
    /\ \E n \in 1..Len(processed_jars) : processed_jars[n][2] = "deep.jar"

====
